---- MODULE Spec2Model ----
(***************************************************************************)
(* Model of src/parse.rs of diffsitter: the grammar registry LANGUAGES,    *)
(* the default extension map FILE_EXTS, generate_language,                 *)
(* language_from_ext, parse_file, supported_languages and the unit test    *)
(* test_loading_languages.                                                 *)
(*                                                                         *)
(* Values.  Option<T> is a sequence of length at most one: None is <<>>    *)
(* and Some(x) is <<x>>.  Result<T> is a record: Ok(v) or Err(kind, arg).  *)
(* A path is its file name split at the dots: "a.rs" is <<"a", "rs">>,     *)
(* ".bashrc" is <<"", "bashrc">>, "Makefile" is <<"Makefile">>.            *)
(***************************************************************************)
EXTENDS Naturals, Sequences, FiniteSets, TLC

VARIABLES
    LANGUAGES,      \* the registry: language name -> grammar handle its provider yields
    op,             \* the operation called last
    pc,             \* position inside the running call
    args,           \* the arguments of the call
    text,           \* parse_file: Option of the text read from the file
    parser,         \* parse_file: Option of the Parser's language binding
    language,       \* parse_file: Option of the resolved grammar handle
    ret,            \* Option of the value the call returned
    log,            \* the steps the call performed, in order
    lastSupported   \* Option of what the previous supported_languages call returned

vars == <<LANGUAGES, op, pc, args, text, parser, language, ret, log, lastSupported>>

----------------------------------------------------------------------------
(* Option and Result *)

None == <<>>

Some(x) == <<x>>

Ok(v) == [ok |-> TRUE, val |-> v]

Err(kind, arg) == [ok |-> FALSE, err |-> kind, arg |-> arg]

IsOk(r, v) == r.ok /\ r.val = v

IsErr(r, kind) == (~r.ok) /\ r.err = kind

IsErrOf(r, kind, arg) == (~r.ok) /\ r.err = kind /\ r.arg = arg

Range(s) == {s[i] : i \in DOMAIN s}

----------------------------------------------------------------------------
(* Bounds and input sets *)

\* Longest file name, counted in dot-separated segments.
MaxSegs == 2

\* The names a build may have compiled a grammar for.
GrammarPool == {"c", "c_sharp", "cpp", "rust"}

\* Segments file names are made of; "\\xFF" stands for a segment that is not
\* valid Unicode.
Segs == {"", "a", "c", "txt", "\\xFF"}

Paths == UNION {[1..n -> Segs] : n \in 1..MaxSegs}

\* Contents of a file; None is a file that cannot be read as UTF-8 text.
Files == {None, Some("print(1)")}

\* Explicit language arguments.
ExplicitLanguages == {None, Some("rust"), Some("not_a_real_language")}

OverrideExts == {"c", "txt"}

OverrideLangs == {"rust", "not_a_real_language"}

\* Option<&HashMap<String, String>>
OverrideMaps ==
    {None} \cup UNION {{Some(m) : m \in [D -> OverrideLangs]} : D \in SUBSET OverrideExts}

----------------------------------------------------------------------------
(* The default extension map *)

FILE_EXTS ==
    ("hs" :> "haskell") @@ ("rs" :> "rust") @@ ("go" :> "go") @@ ("c" :> "c") @@
    ("cc" :> "cpp") @@ ("cpp" :> "cpp") @@ ("cs" :> "c_sharp") @@
    ("java" :> "java") @@ ("py" :> "python") @@ ("css" :> "css") @@
    ("sh" :> "bash") @@ ("bash" :> "bash") @@ ("jl" :> "julia") @@
    ("ml" :> "ocaml") @@ ("rb" :> "ruby") @@ ("scala" :> "scala") @@
    ("sc" :> "scala") @@ ("swift" :> "swift") @@ ("php" :> "php") @@
    ("json" :> "json") @@ ("hcl" :> "hcl")

\* Extensions language_from_ext is called with.
ExtInputs == DOMAIN FILE_EXTS \cup {"txt", "xyz_unknown", "", "\\uFFFD"}

----------------------------------------------------------------------------
(* The grammar registry *)

\* A grammar handle: the grammar it was built from and whether its ABI version
\* lies in the range the parsing engine accepts.
Language(name, compatible) == [grammar |-> name, compatible |-> compatible]

\* The registries a build can produce: some non-empty set of the pool's
\* grammars, each provider yielding a handle of its own grammar.
Registries ==
    UNION {{[l \in S |-> Language(l, c[l])] : c \in [S -> BOOLEAN]} :
           S \in (SUBSET GrammarPool) \ {{}}}

\* Mutant: an unknown name gets some compiled grammar instead of an error.
generate_language_fallback(lang) ==
    IF lang \in DOMAIN LANGUAGES
    THEN Ok(LANGUAGES[lang])
    ELSE Ok(LANGUAGES[CHOOSE l \in DOMAIN LANGUAGES : TRUE])

\* fn generate_language(lang: &str) -> Result<Language>
generate_language(lang) ==
    IF lang \in DOMAIN LANGUAGES
    THEN Ok(LANGUAGES[lang])
    ELSE Err("UnsupportedLanguage", lang)

----------------------------------------------------------------------------
(* language_from_ext *)

\* Mutant: the default map is consulted first and the overrides only after it.
language_from_ext_run_default_first(ext, overrides) ==
    IF ext \in DOMAIN FILE_EXTS
    THEN [ret |-> generate_language(FILE_EXTS[ext]),
          steps |-> <<"FILE_EXTS", "generate_language">>]
    ELSE IF overrides # None /\ ext \in DOMAIN overrides[1]
         THEN [ret |-> generate_language(overrides[1][ext]),
               steps |-> <<"FILE_EXTS", "overrides", "generate_language">>]
         ELSE [ret |-> Err("UnsupportedExtension", ext),
               steps |-> <<"FILE_EXTS", "overrides">>]

\* Mutant: the extension itself is taken for the language name.
language_from_ext_run_ext_as_language(ext, overrides) ==
    IF overrides # None /\ ext \in DOMAIN overrides[1]
    THEN [ret |-> generate_language(overrides[1][ext]),
          steps |-> <<"overrides", "generate_language">>]
    ELSE LET pre == IF overrides # None THEN <<"overrides">> ELSE <<>>
         IN  IF ext \in DOMAIN FILE_EXTS
             THEN [ret |-> generate_language(ext),
                   steps |-> pre \o <<"FILE_EXTS", "generate_language">>]
             ELSE [ret |-> Err("UnsupportedExtension", ext),
                   steps |-> pre \o <<"FILE_EXTS">>]

\* Mutant: the overrides are never looked at.
language_from_ext_run_ignore_overrides(ext, overrides) ==
    IF ext \in DOMAIN FILE_EXTS
    THEN [ret |-> generate_language(FILE_EXTS[ext]),
          steps |-> <<"FILE_EXTS", "generate_language">>]
    ELSE [ret |-> Err("UnsupportedExtension", ext), steps |-> <<"FILE_EXTS">>]

\* Mutant: an override naming an unknown language falls back to the default map.
language_from_ext_run_fallback(ext, overrides) ==
    IF /\ overrides # None
       /\ ext \in DOMAIN overrides[1]
       /\ generate_language(overrides[1][ext]).ok
    THEN [ret |-> generate_language(overrides[1][ext]),
          steps |-> <<"overrides", "generate_language">>]
    ELSE LET pre == IF overrides # None THEN <<"overrides">> ELSE <<>>
         IN  IF ext \in DOMAIN FILE_EXTS
             THEN [ret |-> generate_language(FILE_EXTS[ext]),
                   steps |-> pre \o <<"FILE_EXTS", "generate_language">>]
             ELSE [ret |-> Err("UnsupportedExtension", ext),
                   steps |-> pre \o <<"FILE_EXTS">>]

\* The whole run of language_from_ext: its result and the lookups it made.
language_from_ext_run(ext, overrides) ==
    IF overrides # None /\ ext \in DOMAIN overrides[1]
    THEN [ret |-> generate_language(overrides[1][ext]),
          steps |-> <<"overrides", "generate_language">>]
    ELSE LET pre == IF overrides # None THEN <<"overrides">> ELSE <<>>
         IN  IF ext \in DOMAIN FILE_EXTS
             THEN [ret |-> generate_language(FILE_EXTS[ext]),
                   steps |-> pre \o <<"FILE_EXTS", "generate_language">>]
             ELSE [ret |-> Err("UnsupportedExtension", ext),
                   steps |-> pre \o <<"FILE_EXTS">>]

language_from_ext(ext, overrides) == language_from_ext_run(ext, overrides).ret

----------------------------------------------------------------------------
(* Paths *)

\* OsStr::to_string_lossy: invalid Unicode becomes U+FFFD.
to_string_lossy(seg) == IF seg = "\\xFF" THEN "\\uFFFD" ELSE seg

path_to_string_lossy(p) == [i \in DOMAIN p |-> to_string_lossy(p[i])]

\* Path::extension: the part of the file name after its last dot; None when
\* the name has no dot, is "..", or has its only dot in front.
extension(p) ==
    IF Len(p) = 1 THEN None                            \* no dot: "Makefile"
    ELSE IF p = <<"", "", "">> THEN None               \* ".."
    ELSE IF Len(p) = 2 /\ p[1] = "" THEN None          \* only dot in front: ".bashrc"
    ELSE Some(p[Len(p)])

----------------------------------------------------------------------------
(* The parsing engine *)

\* Parser::set_language: rejects a grammar of an incompatible ABI version with
\* a LanguageError, which parse_file wraps.
set_language(lang) ==
    IF lang.compatible THEN Ok(lang) ELSE Err("GrammarBindingFailed", "LanguageError")

Tree(lang, t) == [grammar |-> lang.grammar, text |-> t]

----------------------------------------------------------------------------
(* Initial state *)

Init ==
    /\ LANGUAGES \in Registries
    /\ op = "none"
    /\ pc = "idle"
    /\ args = <<>>
    /\ text = None
    /\ parser = None
    /\ language = None
    /\ ret = None
    /\ log = <<>>
    /\ lastSupported = None

----------------------------------------------------------------------------
(* parse_file, one action per step of its body *)

\* The call: the caller's arguments and what the file system holds at p.
parse_file_call(p, lang, overrides, file) ==
    /\ pc = "idle"
    /\ op' = "parse_file"
    /\ pc' = "read"
    /\ args' = [p |-> p, language |-> lang, overrides |-> overrides, file |-> file]
    /\ text' = None
    /\ parser' = None
    /\ language' = None
    /\ ret' = None
    /\ log' = <<>>
    /\ UNCHANGED <<LANGUAGES, lastSupported>>

\* Mutant: a failed read is swallowed and the call goes on with an empty text.
parse_file_read_swallow_error ==
    /\ op = "parse_file" /\ pc = "read"
    /\ log' = Append(log, "read")
    /\ text' = IF args.file = None THEN Some("") ELSE args.file
    /\ parser' = None
    /\ pc' = "resolve"
    /\ UNCHANGED <<LANGUAGES, op, args, language, ret, lastSupported>>

\* let text = fs::read_to_string(p)?;  let mut parser = Parser::new();
parse_file_read ==
    /\ op = "parse_file" /\ pc = "read"
    /\ log' = Append(log, "read")
    /\ IF args.file = None
       THEN /\ ret' = Some(Err("IoError", "io::Error"))
            /\ pc' = "done"
            /\ UNCHANGED <<text, parser>>
       ELSE /\ text' = args.file
            /\ parser' = None
            /\ pc' = "resolve"
            /\ UNCHANGED ret
    /\ UNCHANGED <<LANGUAGES, op, args, language, lastSupported>>

\* Mutant: the extension is tried first, the explicit language only without one.
parse_file_resolve_run_extension_first ==
    IF extension(args.p) # None
    THEN LET r == language_from_ext_run(to_string_lossy(extension(args.p)[1]),
                                        args.overrides)
         IN  [ret |-> r.ret, steps |-> <<"extension">> \o r.steps]
    ELSE IF args.language # None
         THEN [ret |-> generate_language(args.language[1]),
               steps |-> <<"extension", "generate_language">>]
         ELSE [ret |-> Err("NoExtension", path_to_string_lossy(args.p)),
               steps |-> <<"extension">>]

\* Mutant: a missing extension is looked up as the empty extension.
parse_file_resolve_run_empty_extension ==
    IF args.language # None
    THEN [ret |-> generate_language(args.language[1]),
          steps |-> <<"generate_language">>]
    ELSE LET e == IF extension(args.p) # None
                  THEN to_string_lossy(extension(args.p)[1]) ELSE ""
             r == language_from_ext_run(e, args.overrides)
         IN  [ret |-> r.ret, steps |-> <<"extension">> \o r.steps]

\* The match on `language` and the `?` that follows it.
parse_file_resolve_run ==
    IF args.language # None
    THEN [ret |-> generate_language(args.language[1]),
          steps |-> <<"generate_language">>]
    ELSE IF extension(args.p) # None
         THEN LET r == language_from_ext_run(to_string_lossy(extension(args.p)[1]),
                                             args.overrides)
              IN  [ret |-> r.ret, steps |-> <<"extension">> \o r.steps]
         ELSE [ret |-> Err("NoExtension", path_to_string_lossy(args.p)),
               steps |-> <<"extension">>]

parse_file_resolve ==
    /\ op = "parse_file" /\ pc = "resolve"
    /\ LET r == parse_file_resolve_run
       IN  /\ log' = log \o <<"resolve">> \o r.steps
           /\ IF r.ret.ok
              THEN /\ language' = Some(r.ret.val)
                   /\ pc' = "bind"
                   /\ UNCHANGED ret
              ELSE /\ ret' = Some(r.ret)
                   /\ pc' = "done"
                   /\ UNCHANGED language
    /\ UNCHANGED <<LANGUAGES, op, args, text, parser, lastSupported>>

\* parser.set_language(language).map_err(..)?;
parse_file_bind ==
    /\ op = "parse_file" /\ pc = "bind"
    /\ log' = Append(log, "bind")
    /\ LET r == set_language(language[1])
       IN  IF r.ok
           THEN /\ parser' = Some(r.val)
                /\ pc' = "parse"
                /\ UNCHANGED ret
           ELSE /\ ret' = Some(r)
                /\ pc' = "done"
                /\ UNCHANGED parser
    /\ UNCHANGED <<LANGUAGES, op, args, text, language, lastSupported>>

\* Mutant: no tree from the engine is turned into an empty tree.
parse_file_result_empty_tree(produced) ==
    IF produced # None
    THEN Ok(produced[1])
    ELSE Ok(Tree(parser[1], ""))

\* match parser.parse(&text, None): the engine produces a tree or none.
parse_file_result(produced) ==
    IF produced # None
    THEN Ok(produced[1])
    ELSE Err("ParseFailed", path_to_string_lossy(args.p))

parse_file_parse ==
    /\ op = "parse_file" /\ pc = "parse"
    /\ \E produced \in {None, Some(Tree(parser[1], text[1]))} :
          /\ log' = Append(log, IF produced # None THEN "parse:tree" ELSE "parse:none")
          /\ ret' = Some(parse_file_result(produced))
    /\ pc' = "done"
    /\ UNCHANGED <<LANGUAGES, op, args, text, parser, language, lastSupported>>

----------------------------------------------------------------------------
(* The other public operations *)

language_from_ext_call(ext, overrides) ==
    /\ pc = "idle"
    /\ op' = "language_from_ext"
    /\ pc' = "done"
    /\ args' = [ext |-> ext, overrides |-> overrides]
    /\ ret' = Some(language_from_ext(ext, overrides))
    /\ log' = language_from_ext_run(ext, overrides).steps
    /\ text' = None /\ parser' = None /\ language' = None
    /\ UNCHANGED <<LANGUAGES, lastSupported>>

\* Bytes of the registry's names, for the byte-wise order of &str.
Bytes ==
    ("c" :> <<99>>) @@
    ("c_sharp" :> <<99, 95, 115, 104, 97, 114, 112>>) @@
    ("cpp" :> <<99, 112, 112>>) @@
    ("rust" :> <<114, 117, 115, 116>>)

RECURSIVE SeqLess(_, _)
\* Ord for slices: lexicographic, a proper prefix is smaller.
SeqLess(a, b) ==
    IF b = <<>> THEN FALSE
    ELSE IF a = <<>> THEN TRUE
    ELSE IF a[1] # b[1] THEN a[1] < b[1]
    ELSE SeqLess(Tail(a), Tail(b))

\* Ord for &str
StrLess(a, b) == SeqLess(Bytes[a], Bytes[b])

RECURSIVE insert_tail(_, _)
\* Inserts x into the sorted s, shifting the larger elements right.
insert_tail(s, x) ==
    IF s = <<>> \/ ~StrLess(x, s[Len(s)])
    THEN Append(s, x)
    ELSE Append(insert_tail(SubSeq(s, 1, Len(s) - 1), x), s[Len(s)])

RECURSIVE sort_unstable(_)
\* <[&str]>::sort_unstable: an insertion sort on slices this short.
sort_unstable(v) ==
    IF v = <<>> THEN <<>>
    ELSE insert_tail(sort_unstable(SubSeq(v, 1, Len(v) - 1)), v[Len(v)])

\* The orders LANGUAGES.keys() may iterate in: every arrangement of the keys.
KeyOrders ==
    {k \in [1..Cardinality(DOMAIN LANGUAGES) -> DOMAIN LANGUAGES] :
        \A i, j \in DOMAIN k : i # j => k[i] # k[j]}

\* Mutant: the keys are returned in the order the registry iterates in.
supported_languages_unsorted(keys) == keys

\* pub fn supported_languages() -> Vec<&'static str>
supported_languages(keys) == sort_unstable(keys)

supported_languages_call(keys) ==
    /\ pc = "idle"
    /\ op' = "supported_languages"
    /\ pc' = "done"
    /\ args' = [keys |-> keys]
    /\ ret' = Some(supported_languages(keys))
    /\ lastSupported' = ret'
    /\ log' = <<>>
    /\ text' = None /\ parser' = None /\ language' = None
    /\ UNCHANGED LANGUAGES

\* The failures test_loading_languages collects, visiting LANGUAGES in order.
loading_failures(keys) ==
    SelectSeq([i \in DOMAIN keys |->
                  <<keys[i], set_language(generate_language(keys[i]).val)>>],
              LAMBDA f : ~f[2].ok)

\* #[test] fn test_loading_languages(): passes when no binding failed.
test_loading_languages(keys) ==
    IF loading_failures(keys) = <<>>
    THEN Ok("passed")
    ELSE Err("panicked", loading_failures(keys))

test_loading_languages_call(keys) ==
    /\ pc = "idle"
    /\ op' = "test_loading_languages"
    /\ pc' = "done"
    /\ args' = [keys |-> keys]
    /\ ret' = Some(test_loading_languages(keys))
    /\ log' = <<>>
    /\ text' = None /\ parser' = None /\ language' = None
    /\ UNCHANGED <<LANGUAGES, lastSupported>>

\* The caller takes the returned value; the call's locals are gone.
call_return ==
    /\ pc = "done"
    /\ pc' = "idle"
    /\ op' = "none"
    /\ args' = <<>>
    /\ ret' = None
    /\ log' = <<>>
    /\ text' = None /\ parser' = None /\ language' = None
    /\ UNCHANGED <<LANGUAGES, lastSupported>>

Next ==
    \/ /\ pc = "idle"
       /\ \E p \in Paths, l \in ExplicitLanguages, o \in OverrideMaps, f \in Files :
             parse_file_call(p, l, o, f)
    \/ parse_file_read
    \/ parse_file_resolve
    \/ parse_file_bind
    \/ parse_file_parse
    \/ /\ pc = "idle"
       /\ \E e \in ExtInputs, o \in OverrideMaps : language_from_ext_call(e, o)
    \/ /\ pc = "idle"
       /\ \E k \in KeyOrders : supported_languages_call(k)
    \/ /\ pc = "idle"
       /\ \E k \in KeyOrders : test_loading_languages_call(k)
    \/ call_return

Spec == Init /\ [][Next]_vars

\* The builds whose grammars all pass test_loading_languages: every provider
\* yields a handle of an ABI version the parsing engine accepts.
InitLoadable == Init /\ \A l \in DOMAIN LANGUAGES : LANGUAGES[l].compatible

SpecLoadable == InitLoadable /\ [][Next]_vars

----------------------------------------------------------------------------
(* Properties *)

Returned(o) == op = o /\ pc = "done"

\* The override map of a call has an entry for e.
Overrides(e) == args.overrides # None /\ e \in DOMAIN args.overrides[1]

\* What looking a language name up in the registry must give.
Lookup(r, l) ==
    IF l \in DOMAIN LANGUAGES
    THEN IsOk(r, LANGUAGES[l])
    ELSE IsErrOf(r, "UnsupportedLanguage", l)

\* C1: when the override map contains e, language_from_ext(e, Some(O)) resolves
\* to the language O[e] and to no other: the result is what the registry gives
\* for O[e], the override map is looked at first and the default map not at all.
C1_OverrideWins ==
    (Returned("language_from_ext") /\ Overrides(args.ext)) =>
        /\ Lookup(ret[1], args.overrides[1][args.ext])
        /\ log = <<"overrides", "generate_language">>

\* An override that shadows a default entry of another, compiled language.
C1_Witness ==
    /\ Returned("language_from_ext")
    /\ Overrides(args.ext)
    /\ args.ext \in DOMAIN FILE_EXTS
    /\ FILE_EXTS[args.ext] \in DOMAIN LANGUAGES
    /\ FILE_EXTS[args.ext] # args.overrides[1][args.ext]
    /\ ret[1].ok
    /\ ret[1].val.grammar = args.overrides[1][args.ext]

\* C2 as stated: with an explicit language that is not in the registry,
\* parse_file fails with UnsupportedLanguage whatever the path.
C2_Original ==
    (/\ Returned("parse_file")
     /\ args.language # None
     /\ args.language[1] \notin DOMAIN LANGUAGES)
        => IsErr(ret[1], "UnsupportedLanguage")

\* C2, amended: with an explicit language, a file that cannot be read fails with
\* IoError; a file that can be read has the explicit language looked up in the
\* registry, with no look at the extension, the overrides or the default map,
\* and a language the registry lacks fails with UnsupportedLanguage.
C2_ExplicitLanguage ==
    (op = "parse_file" /\ args.language # None /\ pc \in {"bind", "parse", "done"}) =>
        IF args.file = None
        THEN pc = "done" /\ IsErr(ret[1], "IoError") /\ log = <<"read">>
        ELSE /\ SubSeq(log, 1, 3) = <<"read", "resolve", "generate_language">>
             /\ Range(log) \cap {"extension", "overrides", "FILE_EXTS"} = {}
             /\ IF args.language[1] \in DOMAIN LANGUAGES
                THEN language = Some(LANGUAGES[args.language[1]])
                ELSE /\ pc = "done"
                     /\ IsErrOf(ret[1], "UnsupportedLanguage", args.language[1])

\* An unknown explicit language on a path whose extension both maps resolve.
C2_Witness ==
    /\ Returned("parse_file")
    /\ args.language = Some("not_a_real_language")
    /\ extension(args.p) = Some("c")
    /\ Overrides("c")
    /\ args.overrides[1]["c"] \in DOMAIN LANGUAGES
    /\ IsErrOf(ret[1], "UnsupportedLanguage", "not_a_real_language")

\* C3 as stated: with no explicit language, a path without extension fails
\* with NoExtension.
C3_Original ==
    (Returned("parse_file") /\ args.language = None /\ extension(args.p) = None)
        => IsErr(ret[1], "NoExtension")

\* C3, amended: with no explicit language and a path without extension, a file
\* that can be read fails with NoExtension naming the path, for every override
\* map, and neither map is looked at; a file that cannot be read fails with
\* IoError.
C3_NoExtension ==
    (Returned("parse_file") /\ args.language = None /\ extension(args.p) = None) =>
        IF args.file = None
        THEN IsErr(ret[1], "IoError")
        ELSE /\ IsErrOf(ret[1], "NoExtension", path_to_string_lossy(args.p))
             /\ log = <<"read", "resolve", "extension">>

\* The file ".c" with an override for "c": no extension, so no resolution.
C3_Witness ==
    /\ Returned("parse_file")
    /\ args.language = None
    /\ args.p = <<"", "c">>
    /\ Overrides("c")
    /\ args.file # None
    /\ IsErr(ret[1], "NoExtension")

\* C4 as stated: for every extension of the default map, resolution without
\* overrides succeeds with the language the map gives.
C4_Original ==
    (/\ Returned("language_from_ext")
     /\ args.overrides = None
     /\ args.ext \in DOMAIN FILE_EXTS)
        => ret[1].ok /\ ret[1].val.grammar = FILE_EXTS[args.ext]

\* C4, amended: for every extension e of the default map, resolution without
\* overrides is the registry's answer for FILE_EXTS[e]: that language's grammar
\* when the registry has it, UnsupportedLanguage naming it when not; and every
\* language a successful resolution returns is in the registry.
C4_DefaultMap ==
    Returned("language_from_ext") =>
        /\ (args.overrides = None /\ args.ext \in DOMAIN FILE_EXTS)
               => Lookup(ret[1], FILE_EXTS[args.ext])
        /\ ret[1].ok =>
               /\ ret[1].val.grammar \in DOMAIN LANGUAGES
               /\ ret[1].val = LANGUAGES[ret[1].val.grammar]

\* "cc" resolved to the compiled grammar "cpp".
C4_Witness ==
    /\ Returned("language_from_ext")
    /\ args.overrides = None
    /\ args.ext = "cc"
    /\ IsOk(ret[1], LANGUAGES["cpp"])

\* C5: language_from_ext fails with UnsupportedExtension, naming the extension,
\* exactly when neither the override map nor the default map has the extension.
C5_UnsupportedExtension ==
    Returned("language_from_ext") =>
        /\ IsErr(ret[1], "UnsupportedExtension")
               <=> (~Overrides(args.ext) /\ args.ext \notin DOMAIN FILE_EXTS)
        /\ IsErr(ret[1], "UnsupportedExtension") => ret[1].arg = args.ext

\* An unknown extension under an override map that has other entries.
C5_Witness ==
    /\ Returned("language_from_ext")
    /\ args.ext = "xyz_unknown"
    /\ args.overrides # None
    /\ DOMAIN args.overrides[1] # {}
    /\ IsErrOf(ret[1], "UnsupportedExtension", "xyz_unknown")

\* s is strictly ascending in the byte-wise order of strings.
StrictlyAscending(s) == \A i \in 1..(Len(s) - 1) : StrLess(s[i], s[i + 1])

\* C6: every call of supported_languages returns the registry's keys, each
\* once, strictly ascending; the same sequence as the call before it; and the
\* registry is left as it was.
C6_SupportedLanguages ==
    [][(op' = "supported_languages" /\ pc' = "done") =>
          /\ StrictlyAscending(ret'[1])
          /\ Range(ret'[1]) = DOMAIN LANGUAGES
          /\ Len(ret'[1]) = Cardinality(DOMAIN LANGUAGES)
          /\ lastSupported # None => ret' = lastSupported
          /\ LANGUAGES' = LANGUAGES]_vars

\* A registry of four grammars iterated in descending order.
C6_Witness ==
    /\ Returned("supported_languages")
    /\ args.keys = <<"rust", "cpp", "c_sharp", "c">>
    /\ ret[1] = <<"c", "c_sharp", "cpp", "rust">>

\* C7: when the engine ran and produced no tree, parse_file returns ParseFailed
\* carrying the path; it returns a tree only when the engine produced one, and
\* then that tree, of the whole text of the file.
C7_ParseFailed ==
    Returned("parse_file") =>
        /\ (log # <<>> /\ log[Len(log)] = "parse:none")
               => IsErrOf(ret[1], "ParseFailed", path_to_string_lossy(args.p))
        /\ ret[1].ok =>
               /\ log[Len(log)] = "parse:tree"
               /\ ret[1].val = Tree(parser[1], args.file[1])
        /\ IsErr(ret[1], "ParseFailed") => log[Len(log)] = "parse:none"

\* The engine ran on a bound grammar and produced nothing.
C7_Witness ==
    /\ Returned("parse_file")
    /\ parser # None
    /\ log[Len(log)] = "parse:none"
    /\ IsErr(ret[1], "ParseFailed")

MainSteps ==
    LET main == SelectSeq(log, LAMBDA x :
                    x \in {"read", "resolve", "bind", "parse:tree", "parse:none"})
    IN  [i \in DOMAIN main |->
            IF main[i] \in {"parse:tree", "parse:none"} THEN "parse" ELSE main[i]]

Count(x) == Cardinality({i \in DOMAIN log : log[i] = x})

\* The resolution of the call's language fails.
ResolveFails ==
    IF args.language # None THEN args.language[1] \notin DOMAIN LANGUAGES
    ELSE IF extension(args.p) = None THEN TRUE
    ELSE LET e == to_string_lossy(extension(args.p)[1])
         IN  IF Overrides(e) THEN args.overrides[1][e] \notin DOMAIN LANGUAGES
             ELSE IF e \in DOMAIN FILE_EXTS THEN FILE_EXTS[e] \notin DOMAIN LANGUAGES
             ELSE TRUE

\* C9: parse_file performs read, resolve, bind and parse in this order, each
\* at most once, and the grammar is obtained at most once; the call returns
\* the error of the first step that fails and performs no step after it.
C9_StepOrder ==
    op = "parse_file" =>
        /\ MainSteps = SubSeq(<<"read", "resolve", "bind", "parse">>, 1, Len(MainSteps))
        /\ Count("generate_language") <= 1
        /\ pc = "done" =>
              IF args.file = None
              THEN IsErr(ret[1], "IoError") /\ MainSteps = <<"read">>
              ELSE IF ResolveFails
              THEN /\ ~ret[1].ok
                   /\ ret[1].err \in {"NoExtension", "UnsupportedExtension",
                                       "UnsupportedLanguage"}
                   /\ MainSteps = <<"read", "resolve">>
              ELSE IF ~language[1].compatible
              THEN /\ IsErr(ret[1], "GrammarBindingFailed")
                   /\ MainSteps = <<"read", "resolve", "bind">>
              ELSE /\ ret[1].ok \/ IsErr(ret[1], "ParseFailed")
                   /\ MainSteps = <<"read", "resolve", "bind", "parse">>

\* An unreadable file without extension: IoError, not NoExtension.
C9_Witness ==
    /\ Returned("parse_file")
    /\ args.file = None
    /\ args.language = None
    /\ extension(args.p) = None
    /\ IsErr(ret[1], "IoError")
    /\ log = <<"read">>

\* C10: when the override map maps e to a language the registry lacks,
\* language_from_ext fails with UnsupportedLanguage naming it and the default
\* map is not looked at; the default map is looked at only when the override
\* map is absent or has no entry for e.
C10_NoFallback ==
    Returned("language_from_ext") =>
        /\ (Overrides(args.ext) /\ args.overrides[1][args.ext] \notin DOMAIN LANGUAGES)
               => /\ IsErrOf(ret[1], "UnsupportedLanguage", args.overrides[1][args.ext])
                  /\ "FILE_EXTS" \notin Range(log)
        /\ "FILE_EXTS" \in Range(log) => ~Overrides(args.ext)

\* The override names an unknown language where the default names a compiled one.
C10_Witness ==
    /\ Returned("language_from_ext")
    /\ Overrides(args.ext)
    /\ args.overrides[1][args.ext] \notin DOMAIN LANGUAGES
    /\ args.ext \in DOMAIN FILE_EXTS
    /\ FILE_EXTS[args.ext] \in DOMAIN LANGUAGES
    /\ IsErr(ret[1], "UnsupportedLanguage")

====
